---- MODULE Spec2Model ----
(***************************************************************************)
(* rusty_coin: the authenticated request pipeline of PrivateClient.        *)
(*                                                                         *)
(* Text is modelled as a sequence of one-character strings, so that        *)
(* concatenation, prefixes, separators and decimal formatting are what the *)
(* code computes.  An Option<T> is None or Some(v).                        *)
(***************************************************************************)
EXTENDS Integers, Sequences, FiniteSets, TLC

VARIABLES
    secret,      \* PrivateClient.secret
    key,         \* PrivateClient.key
    passphrase,  \* PrivateClient.passphrase
    url,         \* PrivateClient.url
    clock,       \* SystemTime::now(), seconds since the epoch
    calls,       \* the calls in progress on the client, one record per call
    wire,        \* the requests each call has handed to the HTTP transport
    signIn,      \* arguments of a direct call of the public sign_message
    signOut      \* what that call returned

vars == <<secret, key, passphrase, url, clock, calls, wire, signIn, signOut>>

----------------------------------------------------------------------------
(* Option *)

None == [some |-> FALSE]

Some(v) == [some |-> TRUE, v |-> v]

----------------------------------------------------------------------------
(* Text helpers *)

RECURSIVE Concat(_)
\* String::push_str applied to each piece in turn
Concat(pieces) ==
    IF pieces = <<>> THEN <<>> ELSE Head(pieces) \o Concat(Tail(pieces))

RECURSIVE CountChar(_, _)
CountChar(s, c) ==
    IF s = <<>> THEN 0
    ELSE (IF Head(s) = c THEN 1 ELSE 0) + CountChar(Tail(s), c)

Digits == <<"0", "1", "2", "3", "4", "5", "6", "7", "8", "9">>

RECURSIVE ToDecimal(_)
\* u64::to_string / format!("{}", n) of an unsigned integer
ToDecimal(n) ==
    IF n < 10 THEN <<Digits[n + 1]>>
    ELSE ToDecimal(n \div 10) \o <<Digits[(n % 10) + 1]>>

----------------------------------------------------------------------------
(* base64 (standard alphabet) *)

Base64Alphabet ==
    <<"A", "B", "C", "D", "E", "F", "G", "H", "I", "J", "K", "L", "M",
      "N", "O", "P", "Q", "R", "S", "T", "U", "V", "W", "X", "Y", "Z",
      "a", "b", "c", "d", "e", "f", "g", "h", "i", "j", "k", "l", "m",
      "n", "o", "p", "q", "r", "s", "t", "u", "v", "w", "x", "y", "z",
      "0", "1", "2", "3", "4", "5", "6", "7", "8", "9", "+", "/">>

IsBase64Symbol(c) == \E i \in 1..Len(Base64Alphabet) : Base64Alphabet[i] = c

SymbolValue(c) == (CHOOSE i \in 1..Len(Base64Alphabet) : Base64Alphabet[i] = c) - 1

\* the number of trailing '=' of s
PadCount(s) ==
    IF Len(s) >= 2 /\ s[Len(s)] = "=" /\ s[Len(s) - 1] = "=" THEN 2
    ELSE IF Len(s) >= 1 /\ s[Len(s)] = "=" THEN 1
    ELSE 0

\* bit k (0 = first) of the stream of 6-bit symbol values
StreamBit(vals, k) == (vals[(k \div 6) + 1] \div (2 ^ (5 - (k % 6)))) % 2

StreamByte(vals, j) ==
    StreamBit(vals, 8 * j) * 128 + StreamBit(vals, 8 * j + 1) * 64
    + StreamBit(vals, 8 * j + 2) * 32 + StreamBit(vals, 8 * j + 3) * 16
    + StreamBit(vals, 8 * j + 4) * 8 + StreamBit(vals, 8 * j + 5) * 4
    + StreamBit(vals, 8 * j + 6) * 2 + StreamBit(vals, 8 * j + 7)

\* base64::decode: Ok(bytes) or Err
Base64Decode(s) ==
    LET pad == PadCount(s)
        data == SubSeq(s, 1, Len(s) - pad)
        m == Len(data)
        symbolsOk == \A i \in 1..m : IsBase64Symbol(data[i])
        lengthOk == IF pad > 0 THEN Len(s) % 4 = 0 ELSE m % 4 # 1
        vals == [i \in 1..m |-> SymbolValue(data[i])]
        nbytes == (6 * m) \div 8
        trailingOk == \A k \in (8 * nbytes)..(6 * m - 1) : StreamBit(vals, k) = 0
    IN  IF symbolsOk /\ lengthOk /\ trailingOk
        THEN [ok |-> TRUE, bytes |-> [j \in 1..nbytes |-> StreamByte(vals, j - 1)]]
        ELSE [ok |-> FALSE]

\* crypto::hmac::Hmac<Sha256>: the MAC as an ideal keyed function of (key, message)
HmacSha256(k, msg) == [alg |-> "hmac-sha256", key |-> k, msg |-> msg]

\* base64::encode of the MAC code: text over the base64 alphabet that
\* determines, and is determined by, the bytes encoded
Base64Encode(code) == [b64 |-> code]

----------------------------------------------------------------------------
(* sign_message *)

\* a prehash that puts the method before the timestamp
PrehashMutOrder(path, body, timestamp, meathod) ==
    IF body.some
    THEN Concat(<<meathod, timestamp, path, body.v>>)
    ELSE Concat(<<meathod, timestamp, path>>)

\* a prehash that writes a placeholder for an absent body
PrehashMutPlaceholder(path, body, timestamp, meathod) ==
    IF body.some
    THEN Concat(<<timestamp, meathod, path, body.v>>)
    ELSE Concat(<<timestamp, meathod, path, <<"n", "u", "l", "l">> >>)

\* the prehash sign_message builds: "omit body if not supplied"
Prehash(path, body, timestamp, meathod) ==
    IF body.some
    THEN Concat(<<timestamp, meathod, path, body.v>>)
    ELSE Concat(<<timestamp, meathod, path>>)

\* a variant that signs the clock as it stands instead of the timestamp given
sign_messageMutClock(sec, path, body, timestamp, meathod) ==
    LET prehash == Prehash(path, body, ToDecimal(clock), meathod)
        decoded_secret == Base64Decode(sec)
    IN  IF ~decoded_secret.ok
        THEN [panic |-> TRUE]
        ELSE [panic |-> FALSE,
              sig |-> Base64Encode(HmacSha256(decoded_secret.bytes, prehash))]

\* sign_message: panics on a secret that is not base64, else returns the signature
sign_message(sec, path, body, timestamp, meathod) ==
    LET prehash == Prehash(path, body, timestamp, meathod)
        decoded_secret == Base64Decode(sec)
    IN  IF ~decoded_secret.ok
        THEN [panic |-> TRUE]
        ELSE [panic |-> FALSE,
              sig |-> Base64Encode(HmacSha256(decoded_secret.bytes, prehash))]

----------------------------------------------------------------------------
(* f64 values: mant * 10^(-exp), exp minimal *)

F64(mant, exp) == [mant |-> mant, exp |-> exp]

RECURSIVE NormalizeF64(_)
NormalizeF64(x) ==
    IF x.exp > 0 /\ x.mant % 10 = 0
    THEN NormalizeF64(F64(x.mant \div 10, x.exp - 1))
    ELSE x

DigitValue(c) == (CHOOSE i \in 1..10 : Digits[i] = c) - 1

IsDigit(c) == \E i \in 1..10 : Digits[i] = c

RECURSIVE DecimalValue(_)
DecimalValue(digs) ==
    IF digs = <<>> THEN 0
    ELSE DecimalValue(SubSeq(digs, 1, Len(digs) - 1)) * 10 + DigitValue(digs[Len(digs)])

RECURSIVE PadZeros(_, _)
PadZeros(digs, width) ==
    IF Len(digs) >= width THEN digs ELSE PadZeros(<<"0">> \o digs, width)

\* the decimal text serde_json writes for a finite f64: always with a fraction part
FormatF64(x) ==
    IF x.exp = 0 THEN ToDecimal(x.mant) \o <<".", "0">>
    ELSE ToDecimal(x.mant \div (10 ^ x.exp)) \o <<".">>
         \o PadZeros(ToDecimal(x.mant % (10 ^ x.exp)), x.exp)

\* text -> f64 for plain decimal text (digits, optionally '.' and more digits)
ParseF64(text) ==
    LET dots == {i \in 1..Len(text) : text[i] = "."}
        dot == IF dots = {} THEN Len(text) + 1 ELSE CHOOSE i \in dots : TRUE
        int == SubSeq(text, 1, dot - 1)
        frac == SubSeq(text, dot + 1, Len(text))
        wellFormed ==
            /\ Cardinality(dots) <= 1
            /\ int # <<>>
            /\ \A i \in 1..Len(text) : i \in dots \/ IsDigit(text[i])
    IN  IF wellFormed
        THEN [ok |-> TRUE, v |-> NormalizeF64(F64(DecimalValue(int \o frac), Len(frac)))]
        ELSE [ok |-> FALSE]

----------------------------------------------------------------------------
(* JSON values and serde_json *)

JStr(s) == [t |-> "str", v |-> s]

\* a JSON number holding an f64
JNum(x) == [t |-> "num", v |-> x]

\* a JSON number holding an unsigned integer
JInt(n) == [t |-> "int", v |-> n]

JArr(items) == [t |-> "arr", v |-> items]

JNull == [t |-> "null", v |-> <<>>]

JBool(b) == [t |-> IF b THEN "true" ELSE "false", v |-> <<>>]

\* Serialize for Option<&str> and Option<bool>: None is null
JOptStr(o) == IF o.some THEN JStr(o.v) ELSE JNull

JOptBool(o) == IF o.some THEN JBool(o.v) ELSE JNull

\* an object: its (key, value) pairs in the map's iteration order
JObj(pairs) == [t |-> "obj", v |-> pairs]

RECURSIVE EscapeJson(_)
\* serde_json's string escaping of '"' and '\'
EscapeJson(s) ==
    IF s = <<>> THEN <<>>
    ELSE (IF Head(s) \in {"\"", "\\"} THEN <<"\\", Head(s)>> ELSE <<Head(s)>>)
         \o EscapeJson(Tail(s))

Quoted(s) == <<"\"">> \o EscapeJson(s) \o <<"\"">>

RECURSIVE JoinWith(_, _)
JoinWith(texts, sep) ==
    IF texts = <<>> THEN <<>>
    ELSE IF Len(texts) = 1 THEN Head(texts)
    ELSE Head(texts) \o sep \o JoinWith(Tail(texts), sep)

RECURSIVE SerializePretty(_)
\* a serializer that writes a space after ':' and ','
SerializePretty(j) ==
    CASE j.t = "str" -> Quoted(j.v)
      [] j.t = "num" -> FormatF64(j.v)
      [] j.t = "int" -> ToDecimal(j.v)
      [] j.t = "null" -> <<"n", "u", "l", "l">>
      [] j.t = "true" -> <<"t", "r", "u", "e">>
      [] j.t = "false" -> <<"f", "a", "l", "s", "e">>
      [] j.t = "arr" ->
            <<"[">> \o JoinWith([i \in 1..Len(j.v) |-> SerializePretty(j.v[i])], <<",", " ">>)
            \o <<"]">>
      [] j.t = "obj" ->
            <<"{">>
            \o JoinWith([i \in 1..Len(j.v) |->
                            Quoted(j.v[i][1]) \o <<":", " ">> \o SerializePretty(j.v[i][2])],
                        <<",", " ">>)
            \o <<"}">>

RECURSIVE Serialize(_)
\* serde_json's compact serializer, behind both to_string and to_vec
Serialize(j) ==
    CASE j.t = "str" -> Quoted(j.v)
      [] j.t = "num" -> FormatF64(j.v)
      [] j.t = "int" -> ToDecimal(j.v)
      [] j.t = "null" -> <<"n", "u", "l", "l">>
      [] j.t = "true" -> <<"t", "r", "u", "e">>
      [] j.t = "false" -> <<"f", "a", "l", "s", "e">>
      [] j.t = "arr" ->
            <<"[">> \o JoinWith([i \in 1..Len(j.v) |-> Serialize(j.v[i])], <<",">>)
            \o <<"]">>
      [] j.t = "obj" ->
            <<"{">>
            \o JoinWith([i \in 1..Len(j.v) |->
                            Quoted(j.v[i][1]) \o <<":">> \o Serialize(j.v[i][2])],
                        <<",">>)
            \o <<"}">>

\* serde_json::to_string(&n)
to_string(n) == Serialize(n)

\* RequestBuilder::json(&n): the body is serde_json::to_vec(&n)
json(n) == Serialize(n)

----------------------------------------------------------------------------
(* Error, ErrorKind and Result *)

Ok(v) == [ok |-> TRUE, v |-> v]

Err(e) == [ok |-> FALSE, err |-> e]

\* ErrorKind::HTTP(reqwest::Error)
HTTP(e) == [tag |-> "HTTP", e |-> e]

\* ErrorKind::JSON(serde_json::Error)
JSON(e) == [tag |-> "JSON", e |-> e]

\* ErrorKind::Status(StatusError::new(code, message))
Status(code, message) == [tag |-> "Status", code |-> code, message |-> message]

\* Error::new
ErrorNew(kind) == [kind |-> kind]

\* impl From<reqwest::Error> for Error
FromReqwestError(e) == [kind |-> HTTP(e)]

\* a conversion that files a serde_json error under the HTTP kind
FromSerdeJsonErrorMutKind(e) == [kind |-> HTTP(e)]

\* impl From<serde_json::Error> for Error
FromSerdeJsonError(e) == [kind |-> JSON(e)]

----------------------------------------------------------------------------
(* Response bodies and their decoding *)

\* the error payload of the exchange
ErrorPayloadValue == JObj(<< <<<<"m", "e", "s", "s", "a", "g", "e">>, JStr(<<"I", "n", "s", "u", "f", "f", "i", "c", "i", "e", "n", "t", " ", "f", "u", "n", "d", "s">>)>> >>)

\* an object whose message is not a string
BadMessageValue == JObj(<< <<<<"m", "e", "s", "s", "a", "g", "e">>, JInt(5)>> >>)

FeeValue == JObj(<< <<<<"f", "e", "e">>, JNum(F64(5, 1))>> >>)

OrdersValue == JArr(<<JStr(<<"o", "1">>)>>)

WithdrawValue ==
    JObj(<< <<<<"i", "d">>, JStr(<<"w", "1">>)>>,
            <<<<"a", "m", "o", "u", "n", "t">>, JStr(<<"1", ".", "5", "0">>)>>,
            <<<<"c", "u", "r", "r", "e", "n", "c", "y">>, JStr(<<"B", "T", "C">>)>> >>)

\* the JSON documents a response body may hold
JsonUniverse == <<ErrorPayloadValue, BadMessageValue, FeeValue, OrdersValue, WithdrawValue>>

\* a body that is not JSON
GarbageText == <<"<", "h", "t", "m", "l", ">">>

\* serde_json's parser: the document whose text this is, if it is one
ParseJson(text) ==
    IF \E i \in 1..Len(JsonUniverse) : Serialize(JsonUniverse[i]) = text
    THEN [ok |-> TRUE,
          v |-> JsonUniverse[CHOOSE i \in 1..Len(JsonUniverse) :
                                 Serialize(JsonUniverse[i]) = text]]
    ELSE [ok |-> FALSE]

HasField(j, k) == j.t = "obj" /\ \E i \in 1..Len(j.v) : j.v[i][1] = k

Field(j, k) == j.v[CHOOSE i \in 1..Len(j.v) : j.v[i][1] = k][2]

HasStrField(j, k) == HasField(j, k) /\ Field(j, k).t = "str"

\* deserialize_to_f64: a JSON string holding decimal text, converted to f64
deserialize_to_f64(j) ==
    IF j.t = "str" THEN ParseF64(j.v) ELSE [ok |-> FALSE]

\* serde's typed decoding of a parsed document into T: Ok(value) or a data error
FromValue(T, j) ==
    CASE T = "JsonValue" -> [ok |-> TRUE, v |-> j]
      [] T = "Fee" ->
            IF HasField(j, <<"f", "e", "e">>) /\ Field(j, <<"f", "e", "e">>).t \in {"num", "int"}
            THEN [ok |-> TRUE,
                  v |-> [fee |-> IF Field(j, <<"f", "e", "e">>).t = "num"
                                 THEN Field(j, <<"f", "e", "e">>).v
                                 ELSE F64(Field(j, <<"f", "e", "e">>).v, 0)]]
            ELSE [ok |-> FALSE]
      [] T = "VecString" ->
            IF j.t = "arr" /\ \A i \in 1..Len(j.v) : j.v[i].t = "str"
            THEN [ok |-> TRUE, v |-> [i \in 1..Len(j.v) |-> j.v[i].v]]
            ELSE [ok |-> FALSE]
      [] T = "WithdrawInfo" ->
            IF /\ HasStrField(j, <<"i", "d">>)
               /\ HasField(j, <<"a", "m", "o", "u", "n", "t">>)
               /\ deserialize_to_f64(Field(j, <<"a", "m", "o", "u", "n", "t">>)).ok
               /\ HasStrField(j, <<"c", "u", "r", "r", "e", "n", "c", "y">>)
            THEN [ok |-> TRUE,
                  v |-> [id |-> Field(j, <<"i", "d">>).v,
                         amount |-> deserialize_to_f64(Field(j, <<"a", "m", "o", "u", "n", "t">>)).v,
                         currency |-> Field(j, <<"c", "u", "r", "r", "e", "n", "c", "y">>).v]]
            ELSE [ok |-> FALSE]
      [] T = "ErrorMessage" ->
            IF HasStrField(j, <<"m", "e", "s", "s", "a", "g", "e">>)
            THEN [ok |-> TRUE, v |-> [message |-> Field(j, <<"m", "e", "s", "s", "a", "g", "e">>).v]]
            ELSE [ok |-> FALSE]

\* serde_json::from_slice::<T>: Ok(value), or Err(syntax | data)
from_slice(T, text) ==
    LET p == ParseJson(text)
    IN  IF ~p.ok THEN Err("syntax")
        ELSE IF ~FromValue(T, p.v).ok THEN Err("data")
        ELSE Ok(FromValue(T, p.v).v)

\* reqwest::Response::json::<T>: a failed decode is a reqwest::Error
ResponseJson(T, text) ==
    IF from_slice(T, text).ok THEN from_slice(T, text) ELSE Err("decode")

\* StatusCode::is_success
is_success(status) == status >= 200 /\ status <= 299

\* deserialize_response::<T>(response)
deserialize_response(T, response) ==
    IF is_success(response.status)
    THEN IF from_slice(T, response.body).ok
         THEN Ok(from_slice(T, response.body).v)
         ELSE Err(FromSerdeJsonError(from_slice(T, response.body).err))
    ELSE IF from_slice("ErrorMessage", response.body).ok
         THEN Err(ErrorNew(Status(response.status,
                                  from_slice("ErrorMessage", response.body).v.message)))
         ELSE Err(FromSerdeJsonError(from_slice("ErrorMessage", response.body).err))

\* create_profile_transfer, from the response on: the status is inspected inline
create_profile_transfer_decode(response) ==
    IF ~is_success(response.status)
    THEN IF ResponseJson("ErrorMessage", response.body).ok
         THEN Err(ErrorNew(Status(response.status,
                                  ResponseJson("ErrorMessage", response.body).v.message)))
         ELSE Err(FromReqwestError(ResponseJson("ErrorMessage", response.body).err))
    ELSE Ok(response.body)

----------------------------------------------------------------------------
(* Header values *)

\* characters HeaderValue::from_str rejects (not visible ASCII)
ControlChars == {"\n", "\r", "\f"}

\* HeaderValue::from_str(s).is_ok()
IsHeaderValue(s) == \A i \in 1..Len(s) : s[i] \notin ControlChars

----------------------------------------------------------------------------
(* The query strings of get_deposits and get_withdrawls *)

\* u8::MAX: the limit parameter is an Option<u8>
U8Max == 255

\* a limit passed through as requested
ClampLimitMutNone(n) == n

\* if n > 100 { n = 100; }
ClampLimit(n) == IF n > 100 THEN 100 ELSE n

\* the profile_id step with the flag left unset after a first parameter
ProfileIdStepMutFlag(st, profile_id) ==
    IF profile_id.some
    THEN IF st.appended = FALSE
         THEN [url |-> st.url \o <<"?", "p", "r", "o", "f", "i", "l", "e", "_", "i", "d", "=">> \o profile_id.v, appended |-> FALSE]
         ELSE [url |-> st.url \o <<"&", "p", "r", "o", "f", "i", "l", "e", "_", "i", "d", "=">> \o profile_id.v, appended |-> TRUE]
    ELSE st

\* if let Some(n) = profile_id { ... }
ProfileIdStep(st, profile_id) ==
    IF profile_id.some
    THEN IF st.appended = FALSE
         THEN [url |-> st.url \o <<"?", "p", "r", "o", "f", "i", "l", "e", "_", "i", "d", "=">> \o profile_id.v, appended |-> TRUE]
         ELSE [url |-> st.url \o <<"&", "p", "r", "o", "f", "i", "l", "e", "_", "i", "d", "=">> \o profile_id.v, appended |-> TRUE]
    ELSE st

\* if let Some(n) = before_or_after { ... }
BeforeOrAfterStep(st, before_or_after) ==
    IF before_or_after.some
    THEN LET sep == IF st.appended = FALSE THEN <<"?">> ELSE <<"&">>
             word == IF before_or_after.v = "Before" THEN <<"b", "e", "f", "o", "r", "e">> ELSE <<"a", "f", "t", "e", "r">>
         IN  [url |-> st.url \o sep \o word, appended |-> TRUE]
    ELSE st

\* if let Some(mut n) = limit { ... }: the flag is not written here
LimitStep(st, limit) ==
    IF limit.some
    THEN IF st.appended = FALSE
         THEN [url |-> st.url \o <<"?", "l", "i", "m", "i", "t", "=">> \o ToDecimal(ClampLimit(limit.v)),
               appended |-> st.appended]
         ELSE [url |-> st.url \o <<"&", "l", "i", "m", "i", "t", "=">> \o ToDecimal(ClampLimit(limit.v)),
               appended |-> st.appended]
    ELSE st

\* the path get_deposits requests
get_deposits_url(deposit_type, profile_id, before_or_after, limit) ==
    LET st0 == [url |-> <<"/", "t", "r", "a", "n", "s", "f", "e", "r", "s", "/">>, appended |-> FALSE]
        st1 == IF deposit_type.some
               THEN [url |-> st0.url \o (IF deposit_type.v = "Deposit"
                                         THEN <<"?", "t", "y", "p", "e", "=", "d", "e", "p", "o", "s", "i", "t">>
                                         ELSE <<"?", "t", "y", "p", "e", "=", "i", "n", "t", "e", "r", "n", "a", "l", "_", "d", "e", "p", "o", "s", "i", "t">>),
                     appended |-> TRUE]
               ELSE st0
        st2 == ProfileIdStep(st1, profile_id)
        st3 == BeforeOrAfterStep(st2, before_or_after)
        st4 == LimitStep(st3, limit)
    IN  st4.url

\* the path get_withdrawls requests
get_withdrawls_url(withdraw_type, profile_id, before_or_after, limit) ==
    LET st0 == [url |-> <<"/", "t", "r", "a", "n", "s", "f", "e", "r", "s", "/">>, appended |-> FALSE]
        st1 == IF withdraw_type.some
               THEN [url |-> st0.url \o (IF withdraw_type.v = "Withdraw"
                                         THEN <<"?", "t", "y", "p", "e", "=", "w", "i", "t", "h", "d", "r", "a", "w">>
                                         ELSE <<"?", "t", "y", "p", "e", "=", "i", "n", "t", "e", "r", "n", "a", "l", "_", "w", "i", "t", "h", "d", "r", "a", "w">>),
                     appended |-> TRUE]
               ELSE st0
        st2 == ProfileIdStep(st1, profile_id)
        st3 == BeforeOrAfterStep(st2, before_or_after)
        st4 == LimitStep(st3, limit)
    IN  st4.url

----------------------------------------------------------------------------
(* Configuration and inputs *)

COINBASE_API_URL == <<"h", "t", "t", "p", "s", ":", "/", "/", "a", "p", "i", ".", "p", "r", "o", ".", "c", "o", "i", "n", "b", "a", "s", "e", ".", "c", "o", "m">>

COINBASE_SANDBOX_API_URL == <<"h", "t", "t", "p", "s", ":", "/", "/", "a", "p", "i", "-", "p", "u", "b", "l", "i", "c", ".", "s", "a", "n", "d", "b", "o", "x", ".", "p", "r", "o", ".", "c", "o", "i", "n", "b", "a", "s", "e", ".", "c", "o", "m">>

\* the number of calls issued on the client
NCalls == 2

\* the clock reading at construction, and the last reading modelled
ClockStart == 9

MaxClock == 11

Calls == 1..NCalls

\* "key" in base64, and a secret that is not base64
ValidSecret == <<"a", "2", "V", "5">>

InvalidSecret == <<"a", "2", "V", "!">>

Secrets == {ValidSecret, InvalidSecret}

Keys == {<<"k", "1">>, <<"k", "\n">>}

Passphrases == {<<"p", "w">>, <<"p", "\n">>}

\* the status codes the exchange answers with in the model
StatusCodes == {200, 299, 300, 400}

GET == <<"G", "E", "T">>

POST == <<"P", "O", "S", "T">>

DELETE == <<"D", "E", "L", "E", "T", "E">>

IdleCall ==
    [pc |-> "idle", op |-> "none", args |-> <<>>, fn |-> "none", meathod |-> <<>>,
     path |-> <<>>, payload |-> None, body |-> None, T |-> "none",
     timestamp |-> None, clockReads |-> 0, signed |-> None, signature |-> None,
     headers |-> None, response |-> None, result |-> None, ret |-> None]

----------------------------------------------------------------------------
(* The generic operations: get, post, post_and_deserialize, delete *)

\* get::<T>(path), up to its call of access_headers(path, None, "GET")
get(c, op, args, T, path) ==
    /\ calls[c].pc = "idle"
    /\ calls' = [calls EXCEPT ![c] =
                    [IdleCall EXCEPT !.pc = "timestamp", !.op = op, !.args = args,
                                     !.fn = "get", !.T = T, !.path = path,
                                     !.meathod = GET]]
    /\ UNCHANGED <<secret, key, passphrase, url, clock, wire, signIn, signOut>>

\* a delete that has its request signed as a GET
deleteMutGet(c, op, args, T, path) ==
    /\ calls[c].pc = "idle"
    /\ calls' = [calls EXCEPT ![c] =
                    [IdleCall EXCEPT !.pc = "timestamp", !.op = op, !.args = args,
                                     !.fn = "delete", !.T = T, !.path = path,
                                     !.meathod = GET]]
    /\ UNCHANGED <<secret, key, passphrase, url, clock, wire, signIn, signOut>>

\* delete::<T>(path), up to its call of access_headers(path, None, "DELETE")
delete(c, op, args, T, path) ==
    /\ calls[c].pc = "idle"
    /\ calls' = [calls EXCEPT ![c] =
                    [IdleCall EXCEPT !.pc = "timestamp", !.op = op, !.args = args,
                                     !.fn = "delete", !.T = T, !.path = path,
                                     !.meathod = DELETE]]
    /\ UNCHANGED <<secret, key, passphrase, url, clock, wire, signIn, signOut>>

\* the text post passes to access_headers for its body
PostSignedBody(payload) ==
    IF payload.some THEN Some(to_string(payload.v)) ELSE None

\* a post that sends the body in another rendering than the one it signed
PostWireBodyMutPretty(payload) ==
    IF payload.some THEN Some(SerializePretty(payload.v)) ELSE None

\* the body post attaches to the request: .json::<K>(&n), or none
PostWireBody(payload) ==
    IF payload.some THEN Some(json(payload.v)) ELSE None

\* post(path, body), up to its call of access_headers(path, body text, "POST");
\* fn tells post_and_deserialize::<T> from a caller that takes the raw response
post(c, op, args, fn, T, path, payload) ==
    /\ calls[c].pc = "idle"
    /\ calls' = [calls EXCEPT ![c] =
                    [IdleCall EXCEPT !.pc = "timestamp", !.op = op, !.args = args,
                                     !.fn = fn, !.T = T, !.path = path,
                                     !.meathod = POST, !.payload = payload,
                                     !.body = PostSignedBody(payload)]]
    /\ UNCHANGED <<secret, key, passphrase, url, clock, wire, signIn, signOut>>

----------------------------------------------------------------------------
(* access_headers, one step per statement *)

\* get_current_timestamp(): seconds since the epoch, as decimal text
get_current_timestamp == ToDecimal(clock)

\* let timestamp = PrivateClient::get_current_timestamp().unwrap();
AccessHeadersTimestamp(c) ==
    /\ calls[c].pc = "timestamp"
    /\ calls' = [calls EXCEPT ![c].timestamp = Some(get_current_timestamp),
                              ![c].clockReads = @ + 1,
                              ![c].pc = "sign"]
    /\ UNCHANGED <<secret, key, passphrase, url, clock, wire, signIn, signOut>>

\* a variant where the timestamp is kept on the client: the signature is made
\* over the timestamp some call took last
AccessHeadersSignMutShared(c) ==
    \E d \in Calls :
        LET call == calls[c]
            r == sign_message(secret, call.path, call.body, calls[d].timestamp.v, call.meathod)
            passed == [url |-> call.path, body |-> call.body,
                       timestamp |-> calls[d].timestamp.v, meathod |-> call.meathod]
        IN  /\ call.pc = "sign"
            /\ calls[d].timestamp.some
            /\ calls' = [calls EXCEPT ![c].signed = Some(passed),
                                      ![c].signature = IF r.panic THEN None ELSE Some(r.sig),
                                      ![c].pc = IF r.panic THEN "panicked" ELSE "insert"]
            /\ UNCHANGED <<secret, key, passphrase, url, clock, wire, signIn, signOut>>

\* let signature = self.sign_message(url, body, &timestamp, meathod);
AccessHeadersSign(c) ==
    LET call == calls[c]
        r == sign_message(secret, call.path, call.body, call.timestamp.v, call.meathod)
        passed == [url |-> call.path, body |-> call.body,
                   timestamp |-> call.timestamp.v, meathod |-> call.meathod]
    IN  /\ call.pc = "sign"
        /\ calls' = [calls EXCEPT ![c].signed = Some(passed),
                                  ![c].signature = IF r.panic THEN None ELSE Some(r.sig),
                                  ![c].pc = IF r.panic THEN "panicked" ELSE "insert"]
        /\ UNCHANGED <<secret, key, passphrase, url, clock, wire, signIn, signOut>>

\* a header timestamp taken from the clock again
HeaderTimestampMutReread(call) == ToDecimal(clock)

\* the text given to HeaderValue::from_str for cb-access-timestamp
HeaderTimestamp(call) == call.timestamp.v

\* header construction that skips a credential that is not a header value
HeadersOkMutLenient(call) == TRUE

\* every HeaderValue::from_str(..).expect(..) of access_headers succeeds;
\* the signature is base64 text and always a header value
HeadersOk(call) ==
    /\ IsHeaderValue(<<"c", "o", "i", "n", "b", "a", "s", "e", "-", "c", "l", "i", "e", "n", "t">>)
    /\ IsHeaderValue(key)
    /\ IsHeaderValue(HeaderTimestamp(call))
    /\ IsHeaderValue(passphrase)

\* the HeaderMap access_headers returns
HeaderMap(call) ==
    [h \in {"user-agent", "cb-access-key", "cb-access-sign", "cb-access-timestamp",
            "cb-access-passphrase"} |->
        CASE h = "user-agent" -> <<"c", "o", "i", "n", "b", "a", "s", "e", "-", "c", "l", "i", "e", "n", "t">>
          [] h = "cb-access-key" -> key
          [] h = "cb-access-sign" -> call.signature.v
          [] h = "cb-access-timestamp" -> HeaderTimestamp(call)
          [] h = "cb-access-passphrase" -> passphrase]

\* headers.insert(..) five times; return headers
AccessHeadersInsert(c) ==
    LET call == calls[c]
    IN  /\ call.pc = "insert"
        /\ IF HeadersOk(call)
           THEN calls' = [calls EXCEPT ![c].headers = Some(HeaderMap(call)),
                                       ![c].pc = "send"]
           ELSE calls' = [calls EXCEPT ![c].pc = "panicked"]
        /\ UNCHANGED <<secret, key, passphrase, url, clock, wire, signIn, signOut>>

----------------------------------------------------------------------------
(* Sending, and what comes back *)

\* the request handed to reqwest: .get/.post/.delete(url).headers(..)[.json(..)].send()
Request(call) ==
    [meathod |-> CASE call.fn = "get" -> GET
                   [] call.fn = "delete" -> DELETE
                   [] call.fn \in {"post", "post_and_deserialize"} -> POST,
     url |-> url \o call.path,
     headers |-> call.headers.v,
     body |-> IF call.fn \in {"post", "post_and_deserialize"}
              THEN PostWireBody(call.payload)
              ELSE None]

Send(c) ==
    /\ calls[c].pc = "send"
    /\ wire' = [wire EXCEPT ![c] = Append(@, Request(calls[c]))]
    /\ calls' = [calls EXCEPT ![c].pc = "await"]
    /\ UNCHANGED <<secret, key, passphrase, url, clock, signIn, signOut>>

\* what the generic operation returns for a response
Decoded(call, response) ==
    IF call.fn = "post" THEN Ok(response) ELSE deserialize_response(call.T, response)

\* what the domain operation makes of it
Returned(call, response) ==
    LET r == Decoded(call, response)
    IN  CASE call.op = "create_profile_transfer" ->
                IF r.ok THEN create_profile_transfer_decode(response) ELSE r
          [] call.op = "get_fee_estimate" -> IF r.ok THEN Ok(r.v.fee) ELSE r
          [] OTHER -> r

\* a variant that sends the request once more after a non-2xx status
RespondMutRetry(c, status, body) ==
    LET response == [status |-> status, body |-> body]
    IN  /\ calls[c].pc = "await"
        /\ IF ~is_success(status) /\ Len(wire[c]) < 2
           THEN /\ wire' = [wire EXCEPT ![c] = Append(@, Request(calls[c]))]
                /\ UNCHANGED calls
           ELSE /\ calls' = [calls EXCEPT ![c].response = Some(response),
                                  ![c].result = Some(Decoded(calls[c], response)),
                                  ![c].ret = Some(Returned(calls[c], response)),
                                  ![c].pc = "done"]
                /\ UNCHANGED wire
        /\ UNCHANGED <<secret, key, passphrase, url, clock, signIn, signOut>>

\* .send().await delivers a response; the call runs to its return
Respond(c, status, body) ==
    LET response == [status |-> status, body |-> body]
    IN  /\ calls[c].pc = "await"
        /\ calls' = [calls EXCEPT ![c].response = Some(response),
                                  ![c].result = Some(Decoded(calls[c], response)),
                                  ![c].ret = Some(Returned(calls[c], response)),
                                  ![c].pc = "done"]
        /\ UNCHANGED <<secret, key, passphrase, url, clock, wire, signIn, signOut>>

\* .send().await? fails: the reqwest::Error is converted and returned
TransportFail(c) ==
    /\ calls[c].pc = "await"
    /\ calls' = [calls EXCEPT ![c].result = Some(Err(FromReqwestError("connect"))),
                              ![c].ret = Some(Err(FromReqwestError("connect"))),
                              ![c].pc = "done"]
    /\ UNCHANGED <<secret, key, passphrase, url, clock, wire, signIn, signOut>>

\* the wall clock advances
Tick ==
    /\ clock < MaxClock
    /\ clock' = clock + 1
    /\ UNCHANGED <<secret, key, passphrase, url, calls, wire, signIn, signOut>>

----------------------------------------------------------------------------
(* The domain operations issued in the model *)

\* get_fee_estimate(currency, crypto_address)
get_fee_estimate(c, currency, crypto_address) ==
    get(c, "get_fee_estimate", <<currency, crypto_address>>, "Fee",
        <<"/", "w", "i", "t", "h", "d", "r", "a", "w", "a", "l", "s", "/", "f", "e", "e", "-", "e", "s", "t", "i", "m", "a", "t", "e", "?", "c", "u", "r", "r", "e", "n", "c", "y", "=">> \o currency
        \o <<"&", "c", "r", "y", "p", "t", "o", "_", "a", "d", "d", "r", "e", "s", "s", "=">> \o crypto_address)

\* cancel_orders()
cancel_orders(c) ==
    delete(c, "cancel_orders", <<>>, "VecString", <<"/", "o", "r", "d", "e", "r", "s">>)

\* generate_crypto_deposit_address(coinbase_account_id): a POST without a body
generate_crypto_deposit_address(c, coinbase_account_id) ==
    post(c, "generate_crypto_deposit_address", <<coinbase_account_id>>,
         "post_and_deserialize", "JsonValue",
         <<"/", "c", "o", "i", "n", "b", "a", "s", "e", "-", "a", "c", "c", "o", "u", "n", "t", "s", "/">> \o coinbase_account_id \o <<"/", "a", "d", "d", "r", "e", "s", "s", "e", "s">>, None)

\* the json!({..}) body of withdraw_to_coinbase (the map iterates in key order)
WithdrawToCoinbaseBody(amount, currency, coinbase_account_id) ==
    JObj(<< <<<<"a", "m", "o", "u", "n", "t">>, JNum(amount)>>,
            <<<<"c", "o", "i", "n", "b", "a", "s", "e", "_", "a", "c", "c", "o", "u", "n", "t", "_", "i", "d">>, JStr(coinbase_account_id)>>,
            <<<<"c", "u", "r", "r", "e", "n", "c", "y">>, JStr(currency)>> >>)

\* withdraw_to_coinbase(amount, currency, coinbase_account_id)
withdraw_to_coinbase(c, amount, currency, coinbase_account_id) ==
    post(c, "withdraw_to_coinbase", <<amount, currency, coinbase_account_id>>,
         "post_and_deserialize", "WithdrawInfo", <<"/", "w", "i", "t", "h", "d", "r", "a", "w", "a", "l", "s", "/", "c", "o", "i", "n", "b", "a", "s", "e", "-", "a", "c", "c", "o", "u", "n", "t">>,
         Some(WithdrawToCoinbaseBody(amount, currency, coinbase_account_id)))

\* the json!({..}) body of create_profile_transfer (the map iterates in key order)
ProfileTransferBody(from, to, currency, amount) ==
    JObj(<< <<<<"a", "m", "o", "u", "n", "t">>, JNum(amount)>>,
            <<<<"c", "u", "r", "r", "e", "n", "c", "y">>, JStr(currency)>>,
            <<<<"f", "r", "o", "m">>, JStr(from)>>,
            <<<<"t", "o">>, JStr(to)>> >>)

\* create_profile_transfer(from, to, currency, amount), up to the request
create_profile_transfer(c, from, to, currency, amount) ==
    post(c, "create_profile_transfer", <<from, to, currency, amount>>,
         "post", "String", <<"/", "p", "r", "o", "f", "i", "l", "e", "s", "/", "t", "r", "a", "n", "s", "f", "e", "r">>,
         Some(ProfileTransferBody(from, to, currency, amount)))

\* a withdrawal to a crypto address posted to a path of its own
withdraw_to_crypto_addressMutPath(c, amount, currency, crypto_address, destination_tag, no_destination_tag, add_network_fee_to_total) ==
    post(c, "withdraw_to_crypto_address",
         <<amount, currency, crypto_address, destination_tag, no_destination_tag,
           add_network_fee_to_total>>,
         "post_and_deserialize", "JsonValue", <<"/", "w", "i", "t", "h", "d", "r", "a", "w", "a", "l", "s", "/", "c", "r", "y", "p", "t", "o">>,
         Some(JObj(<< <<<<"a", "d", "d", "_", "n", "e", "t", "w", "o", "r", "k", "_", "f", "e", "e", "_", "t", "o", "_", "t", "o", "t", "a", "l">>, JOptBool(add_network_fee_to_total)>>,
                      <<<<"a", "m", "o", "u", "n", "t">>, JNum(amount)>>,
                      <<<<"c", "r", "y", "p", "t", "o", "_", "a", "d", "d", "r", "e", "s", "s">>, JStr(crypto_address)>>,
                      <<<<"c", "u", "r", "r", "e", "n", "c", "y">>, JStr(currency)>>,
                      <<<<"d", "e", "s", "t", "i", "n", "a", "t", "i", "o", "n", "_", "t", "a", "g">>, JOptStr(destination_tag)>>,
                      <<<<"n", "o", "_", "d", "e", "s", "t", "i", "n", "a", "t", "i", "o", "n", "_", "t", "a", "g">>, JOptBool(no_destination_tag)>> >>)))

\* the json!({..}) body of withdraw_to_crypto_address (the map iterates in key order)
WithdrawToCryptoAddressBody(amount, currency, crypto_address, destination_tag, no_destination_tag, add_network_fee_to_total) ==
    JObj(<< <<<<"a", "d", "d", "_", "n", "e", "t", "w", "o", "r", "k", "_", "f", "e", "e", "_", "t", "o", "_", "t", "o", "t", "a", "l">>, JOptBool(add_network_fee_to_total)>>,
            <<<<"a", "m", "o", "u", "n", "t">>, JNum(amount)>>,
            <<<<"c", "r", "y", "p", "t", "o", "_", "a", "d", "d", "r", "e", "s", "s">>, JStr(crypto_address)>>,
            <<<<"c", "u", "r", "r", "e", "n", "c", "y">>, JStr(currency)>>,
            <<<<"d", "e", "s", "t", "i", "n", "a", "t", "i", "o", "n", "_", "t", "a", "g">>, JOptStr(destination_tag)>>,
            <<<<"n", "o", "_", "d", "e", "s", "t", "i", "n", "a", "t", "i", "o", "n", "_", "t", "a", "g">>, JOptBool(no_destination_tag)>> >>)

\* withdraw_to_crypto_address(..): a POST to the path withdraw_to_coinbase posts to
withdraw_to_crypto_address(c, amount, currency, crypto_address, destination_tag, no_destination_tag, add_network_fee_to_total) ==
    post(c, "withdraw_to_crypto_address",
         <<amount, currency, crypto_address, destination_tag, no_destination_tag,
           add_network_fee_to_total>>,
         "post_and_deserialize", "JsonValue", <<"/", "w", "i", "t", "h", "d", "r", "a", "w", "a", "l", "s", "/", "c", "o", "i", "n", "b", "a", "s", "e", "-", "a", "c", "c", "o", "u", "n", "t">>,
         Some(WithdrawToCryptoAddressBody(amount, currency, crypto_address, destination_tag,
                                          no_destination_tag, add_network_fee_to_total)))

\* the body a well-behaved exchange answers the operation with
MatchingBody(op) ==
    CASE op = "get_fee_estimate" -> Serialize(FeeValue)
      [] op = "cancel_orders" -> Serialize(OrdersValue)
      [] op = "generate_crypto_deposit_address" -> Serialize(BadMessageValue)
      [] op = "withdraw_to_coinbase" -> Serialize(WithdrawValue)
      [] op = "withdraw_to_crypto_address" -> Serialize(WithdrawValue)
      [] op = "create_profile_transfer" -> Serialize(OrdersValue)
      [] OTHER -> GarbageText

\* the bodies the transport may deliver to a call
BodiesFor(call) == {MatchingBody(call.op), Serialize(ErrorPayloadValue), GarbageText}

----------------------------------------------------------------------------
(* The client and its calls *)

\* PrivateClient::new / new_sandbox
Init ==
    /\ secret \in Secrets
    /\ key \in Keys
    /\ passphrase \in Passphrases
    /\ url \in {COINBASE_API_URL, COINBASE_SANDBOX_API_URL}
    /\ clock = ClockStart
    /\ calls = [c \in Calls |-> IdleCall]
    /\ wire = [c \in Calls |-> <<>>]
    /\ signIn = None
    /\ signOut = None

\* the call is the only one issued on the client so far
Alone(c) == \A d \in Calls \ {c} : calls[d].pc = "idle"

\* a domain operation is called
Start(c) ==
    \/ get_fee_estimate(c, <<"B", "T", "C">>, <<"a", "1">>)
    \/ cancel_orders(c)
    \/ generate_crypto_deposit_address(c, <<"c", "1">>)
    \/ withdraw_to_coinbase(c, F64(15, 1), <<"B", "T", "C">>, <<"c", "1">>)
    \/ create_profile_transfer(c, <<"p", "1">>, <<"p", "2">>, <<"B", "T", "C">>, F64(2, 0))

\* the call advances by one step
Step(c) ==
    \/ AccessHeadersTimestamp(c)
    \/ AccessHeadersSign(c)
    \/ AccessHeadersInsert(c)
    \/ Send(c)
    \/ \E status \in StatusCodes : \E body \in BodiesFor(calls[c]) :
            Respond(c, status, body)
    \/ TransportFail(c)

Next ==
    \/ \E c \in Calls : Alone(c) /\ Start(c)
    \/ \E c \in Calls : Step(c)
    \/ Tick

\* one call on a client, from the domain operation to its return
Spec == Init /\ [][Next]_vars

\* PrivateClient::new with credentials the calls get through with
InitConc ==
    /\ Init
    /\ url = COINBASE_API_URL
    /\ secret = ValidSecret
    /\ key = <<"k", "1">>
    /\ passphrase = <<"p", "w">>

\* a domain operation is called while others may be in flight
StartConc(c) ==
    \/ cancel_orders(c)
    \/ withdraw_to_coinbase(c, F64(15, 1), <<"B", "T", "C">>, <<"c", "1">>)

\* the call advances by one step; the exchange answers well, or not at all
StepConc(c) ==
    \/ AccessHeadersTimestamp(c)
    \/ AccessHeadersSign(c)
    \/ AccessHeadersInsert(c)
    \/ Send(c)
    \/ Respond(c, 200, MatchingBody(calls[c].op))
    \/ TransportFail(c)

NextConc ==
    \/ \E c \in Calls : StartConc(c)
    \/ \E c \in Calls : StepConc(c)
    \/ Tick

\* calls on one client (&self), interleaved at every step
SpecConc == InitConc /\ [][NextConc]_vars

\* the arguments sign_message is called with, several times on one client
RepeatBodies == {None, Some(<<"{", "}">>)}

RepeatTimestamps == {<<"9">>, <<"1", "0">>}

RepeatMethods == {GET, POST}

\* PrivateClient::new / new_sandbox, before any call
InitRepeat == Init

\* client.sign_message(url, body, timestamp, meathod), called directly
SignMessageCall(c) ==
    /\ calls[c].pc = "idle"
    /\ \E b \in RepeatBodies, t \in RepeatTimestamps, m \in RepeatMethods :
          LET passed == [url |-> <<"/", "o", "r", "d", "e", "r", "s">>, body |-> b, timestamp |-> t, meathod |-> m]
              r == sign_message(secret, passed.url, b, t, m)
          IN  calls' = [calls EXCEPT ![c].op = "sign_message",
                                     ![c].signed = Some(passed),
                                     ![c].signature = IF r.panic THEN None ELSE Some(r.sig),
                                     ![c].pc = IF r.panic THEN "panicked" ELSE "done"]
    /\ UNCHANGED <<secret, key, passphrase, url, clock, wire, signIn, signOut>>

NextRepeat == (\E c \in Calls : SignMessageCall(c)) \/ Tick

\* sign_message called again and again on one client while the clock runs
SpecRepeat == InitRepeat /\ [][NextRepeat]_vars

\* a withdrawal of either kind is called while others may be in flight
StartWithdraw(c) ==
    \/ withdraw_to_coinbase(c, F64(15, 1), <<"B", "T", "C">>, <<"c", "1">>)
    \/ withdraw_to_crypto_address(c, F64(15, 1), <<"B", "T", "C">>, <<"a", "1">>, None, Some(TRUE), None)

NextWithdraw ==
    \/ \E c \in Calls : StartWithdraw(c)
    \/ \E c \in Calls : StepConc(c)
    \/ Tick

\* withdrawals of both kinds on one client, interleaved at every step
SpecWithdraw == InitConc /\ [][NextWithdraw]_vars

\* the same, where the awaited future is polled until it returns and the
\* transport answers every request with a response or a failure
SpecLive == Init /\ [][Next]_vars /\ \A c \in Calls : WF_vars(Step(c))

----------------------------------------------------------------------------
(* sign_message called directly: it is a public method *)

SignSecrets == {ValidSecret, InvalidSecret, <<"a", "2", "U", "=">>, <<"A", "A", "E", "C">>}

SignPaths == {<<"/", "o", "r", "d", "e", "r", "s">>, <<"/", "f", "i", "l", "l", "s", "?", "o", "r", "d", "e", "r", "_", "i", "d", "=", "1">>}

SignBodies == {None, Some(<<>>), Some(<<"{", "}">>), Some(<<"1">>)}

SignTimestamps == {<<"9">>, <<"9", "1">>}

SignMethods == {GET, POST, <<"G">>}

InitSign ==
    /\ secret \in SignSecrets
    /\ key \in Keys
    /\ passphrase \in Passphrases
    /\ url = COINBASE_API_URL
    /\ clock = ClockStart
    /\ calls = [c \in Calls |-> IdleCall]
    /\ wire = [c \in Calls |-> <<>>]
    /\ signIn \in {Some([url |-> p, body |-> b, timestamp |-> t, meathod |-> m]) :
                      p \in SignPaths, b \in SignBodies, t \in SignTimestamps,
                      m \in SignMethods}
    /\ signOut = None

\* client.sign_message(url, body, timestamp, meathod)
SignMessage ==
    /\ signIn.some
    /\ signOut = None
    /\ signOut' = Some(sign_message(secret, signIn.v.url, signIn.v.body,
                                    signIn.v.timestamp, signIn.v.meathod))
    /\ UNCHANGED <<secret, key, passphrase, url, clock, calls, wire, signIn>>

NextSign == SignMessage \/ Tick

SpecSign == InitSign /\ [][NextSign]_vars

----------------------------------------------------------------------------
(* get_deposits and get_withdrawls over all their parameters *)

DepositTypes == {None, Some("Deposit"), Some("InternalDeposite")}

WithdrawTypes == {None, Some("Withdraw"), Some("InternalWithdraw")}

ProfileIds == {None, Some(<<"p", "1">>), Some(<<"x">>)}

BeforeOrAfters == {None, Some("Before"), Some("After")}

Limits == {None} \cup {Some(n) : n \in 0..U8Max}

\* get_deposits(deposit_type, profile_id, before_or_after, limit), up to self.get(&url)
get_deposits(c, deposit_type, profile_id, before_or_after, limit) ==
    get(c, "get_deposits", <<deposit_type, profile_id, before_or_after, limit>>,
        "JsonValue", get_deposits_url(deposit_type, profile_id, before_or_after, limit))

\* get_withdrawls(withdraw_type, profile_id, before_or_after, limit), up to self.get(&url)
get_withdrawls(c, withdraw_type, profile_id, before_or_after, limit) ==
    get(c, "get_withdrawls", <<withdraw_type, profile_id, before_or_after, limit>>,
        "JsonValue", get_withdrawls_url(withdraw_type, profile_id, before_or_after, limit))

InitQuery ==
    /\ secret = ValidSecret
    /\ key \in {k \in Keys : IsHeaderValue(k)}
    /\ passphrase \in {p \in Passphrases : IsHeaderValue(p)}
    /\ url = COINBASE_API_URL
    /\ clock = ClockStart
    /\ calls = [c \in Calls |-> IdleCall]
    /\ wire = [c \in Calls |-> <<>>]
    /\ signIn = None
    /\ signOut = None

NextQuery ==
    \/ \E c \in Calls :
            /\ Alone(c) /\ calls[c].pc = "idle"
            /\ \E t \in DepositTypes : \E p \in ProfileIds :
               \E b \in BeforeOrAfters : \E l \in Limits :
                    get_deposits(c, t, p, b, l)
    \/ \E c \in Calls :
            /\ Alone(c) /\ calls[c].pc = "idle"
            /\ \E t \in WithdrawTypes : \E p \in ProfileIds :
               \E b \in BeforeOrAfters : \E l \in Limits :
                    get_withdrawls(c, t, p, b, l)

SpecQuery == InitQuery /\ [][NextQuery]_vars

----------------------------------------------------------------------------
(* Properties *)

Min(a, b) == IF a <= b THEN a ELSE b

EndsWith(s, tail) ==
    /\ Len(s) >= Len(tail)
    /\ SubSeq(s, Len(s) - Len(tail) + 1, Len(s)) = tail

\* the prehash a signature was computed over
SignedText(signature) == signature.b64.msg

\* C1: every call of access_headers reads the clock exactly once, and the
\* cb-access-timestamp header, in the header map and in every request sent, is
\* the very text that was passed to sign_message as the timestamp, however the
\* clock advances in between.
C1_HeaderTimestampIsSignedTimestamp ==
    \A c \in Calls :
        /\ calls[c].clockReads <= 1
        /\ calls[c].headers.some =>
              /\ calls[c].clockReads = 1
              /\ calls[c].headers.v["cb-access-timestamp"] = calls[c].signed.v.timestamp
        /\ \A i \in 1..Len(wire[c]) :
              wire[c][i].headers["cb-access-timestamp"] = calls[c].signed.v.timestamp

\* a request is on the wire and the clock has moved on since its timestamp was read
C1_Witness ==
    \E c \in Calls :
        /\ Len(wire[c]) = 1
        /\ calls[c].timestamp.v = ToDecimal(ClockStart)
        /\ clock > ClockStart

\* C2: the prehash fed to the HMAC is timestamp, method, path and (when
\* supplied) body, in that order, with nothing between, before or after them.
C2_PrehashIsConcatenation ==
    (signOut.some /\ ~signOut.v.panic) =>
        LET pre == SignedText(signOut.v.sig)
            t == signIn.v.timestamp
            m == signIn.v.meathod
            p == signIn.v.url
            b == IF signIn.v.body.some THEN signIn.v.body.v ELSE <<>>
        IN  /\ Len(pre) = Len(t) + Len(m) + Len(p) + Len(b)
            /\ SubSeq(pre, 1, Len(t)) = t
            /\ SubSeq(pre, Len(t) + 1, Len(t) + Len(m)) = m
            /\ SubSeq(pre, Len(t) + Len(m) + 1, Len(t) + Len(m) + Len(p)) = p
            /\ SubSeq(pre, Len(t) + Len(m) + Len(p) + 1, Len(pre)) = b

\* a signature was returned for a call with a non-empty body
C2_Witness ==
    /\ signOut.some /\ ~signOut.v.panic
    /\ signIn.v.body.some /\ signIn.v.body.v # <<>>
    /\ signIn.v.meathod = POST

\* C3 as stated: the signature with the body omitted differs from the signature
\* with an empty-string body.
C3_OmittedDiffersFromEmpty ==
    (signOut.some /\ ~signOut.v.panic /\ signIn.v.body = None) =>
        signOut.v # sign_message(secret, signIn.v.url, Some(<<>>),
                                 signIn.v.timestamp, signIn.v.meathod)

\* C3 as amended: the signature with the body omitted is the signature with an
\* empty-string body, both prehashes being timestamp, method, path; only a
\* non-empty body changes the prehash.
C3_OmittedEqualsEmpty ==
    (signOut.some /\ ~signOut.v.panic /\ signIn.v.body = None) =>
        /\ signOut.v = sign_message(secret, signIn.v.url, Some(<<>>),
                                    signIn.v.timestamp, signIn.v.meathod)
        /\ \A b \in SignBodies :
              (b.some /\ b.v # <<>>) =>
                  SignedText(signOut.v.sig)
                      # SignedText(sign_message(secret, signIn.v.url, b,
                                                signIn.v.timestamp,
                                                signIn.v.meathod).sig)

\* a signature was returned for a call without a body
C3_Witness ==
    /\ signOut.some /\ ~signOut.v.panic
    /\ signIn.v.body = None
    /\ signIn.v.meathod = GET

\* the call returned to its caller after a response with this status class
Answered(c, success) ==
    /\ calls[c].pc = "done"
    /\ calls[c].response.some
    /\ (calls[c].response.v.status \in 200..299) = success

\* C4: a non-2xx response with the error payload yields a status failure with
\* the status code and the payload's message; a non-2xx response with any other
\* body yields a decode failure; in the shared decoder and in
\* create_profile_transfer alike.
C4_NonSuccessClassified ==
    \A c \in Calls :
        Answered(c, FALSE) =>
            IF calls[c].response.v.body = Serialize(ErrorPayloadValue)
            THEN calls[c].ret.v
                    = Err(ErrorNew(Status(calls[c].response.v.status,
                                          <<"I", "n", "s", "u", "f", "f", "i", "c", "i", "e", "n", "t", " ", "f", "u", "n", "d", "s">>)))
            ELSE /\ ~calls[c].ret.v.ok
                 /\ calls[c].ret.v.err.kind.tag = "JSON"

\* C4 for the callers of the shared decoder alone
C4_SharedDecoderClassified ==
    \A c \in Calls :
        (Answered(c, FALSE) /\ calls[c].fn # "post") =>
            IF calls[c].response.v.body = Serialize(ErrorPayloadValue)
            THEN calls[c].ret.v
                    = Err(ErrorNew(Status(calls[c].response.v.status,
                                          <<"I", "n", "s", "u", "f", "f", "i", "c", "i", "e", "n", "t", " ", "f", "u", "n", "d", "s">>)))
            ELSE /\ ~calls[c].ret.v.ok
                 /\ calls[c].ret.v.err.kind.tag = "JSON"

\* create_profile_transfer returned after a non-2xx response that is no error payload
C4_Witness ==
    \E c \in Calls :
        /\ Answered(c, FALSE)
        /\ calls[c].op = "create_profile_transfer"
        /\ calls[c].response.v.body = GarbageText

\* the value of type T a body holds, if it holds one
Typed(T, body) ==
    CASE T = "Fee" /\ body = Serialize(FeeValue) -> Some([fee |-> F64(5, 1)])
      [] T = "VecString" /\ body = Serialize(OrdersValue) -> Some(<<<<"o", "1">>>>)
      [] T = "WithdrawInfo" /\ body = Serialize(WithdrawValue) ->
            Some([id |-> <<"w", "1">>, amount |-> F64(15, 1), currency |-> <<"B", "T", "C">>])
      [] T = "JsonValue" /\ body = Serialize(BadMessageValue) -> Some(BadMessageValue)
      [] T = "JsonValue" /\ body = Serialize(ErrorPayloadValue) -> Some(ErrorPayloadValue)
      [] OTHER -> None

\* C5: get, post_and_deserialize and delete return, for a 2xx response whose
\* body matches T, the decoded value of type T, and for a 2xx response whose
\* body does not match T a decode failure, never a status failure.
C5_SuccessDecoded ==
    \A c \in Calls :
        (Answered(c, TRUE) /\ calls[c].fn \in {"get", "post_and_deserialize", "delete"}) =>
            LET typed == Typed(calls[c].T, calls[c].response.v.body)
            IN  IF typed.some
                THEN calls[c].result.v = Ok(typed.v)
                ELSE /\ ~calls[c].result.v.ok
                     /\ calls[c].result.v.err.kind.tag = "JSON"

\* withdraw_to_coinbase got its WithdrawInfo, the amount text converted to a number
C5_Witness ==
    \E c \in Calls :
        /\ Answered(c, TRUE)
        /\ calls[c].op = "withdraw_to_coinbase"
        /\ calls[c].result.v.ok
        /\ calls[c].result.v.v.amount = F64(15, 1)

\* C6: a call that fails returns an error of one of the three kinds, the kind
\* being decided by the cause: a send failure is a transport (HTTP) failure and
\* nothing else is, a non-2xx response with the error payload is a status
\* failure, a body that does not match the expected schema is a decode (JSON)
\* failure; and no failure is returned as a success.
C6_KindDecidedByCause ==
    \A c \in Calls :
        calls[c].pc = "done" =>
            LET r == calls[c].ret.v
                sent == calls[c].response.some
                body == calls[c].response.v.body
                payload == body = Serialize(ErrorPayloadValue)
                matches == \/ calls[c].fn = "post"
                           \/ Typed(calls[c].T, body).some
            IN  /\ ~r.ok => r.err.kind.tag \in {"HTTP", "Status", "JSON"}
                /\ ~sent => (~r.ok /\ r.err.kind.tag = "HTTP")
                /\ (sent /\ Answered(c, FALSE)) =>
                        (~r.ok /\ r.err.kind.tag = IF payload THEN "Status" ELSE "JSON")
                /\ (sent /\ Answered(c, TRUE)) =>
                        IF matches THEN r.ok ELSE (~r.ok /\ r.err.kind.tag = "JSON")

\* a send failed and the call returned the transport failure
C6_Witness ==
    \E c \in Calls :
        /\ calls[c].pc = "done"
        /\ ~calls[c].response.some
        /\ calls[c].ret.v = Err(FromReqwestError("connect"))

\* the query parameters of a transfers listing that are present, in order
Included(type_text, profile_id, before_or_after, limit) ==
    (IF type_text.some THEN <<<<"t", "y", "p", "e", "=">> \o type_text.v>> ELSE <<>>)
    \o (IF profile_id.some THEN <<<<"p", "r", "o", "f", "i", "l", "e", "_", "i", "d", "=">> \o profile_id.v>> ELSE <<>>)
    \o (IF before_or_after.some
        THEN <<IF before_or_after.v = "Before" THEN <<"b", "e", "f", "o", "r", "e">> ELSE <<"a", "f", "t", "e", "r">>>>
        ELSE <<>>)
    \o (IF limit.some THEN <<<<"l", "i", "m", "i", "t", "=">> \o ToDecimal(Min(limit.v, 100))>> ELSE <<>>)

\* the value of the type parameter the exchange is sent
TypeText(t) ==
    IF ~t.some THEN None
    ELSE CASE t.v = "Deposit" -> Some(<<"d", "e", "p", "o", "s", "i", "t">>)
           [] t.v = "InternalDeposite" -> Some(<<"i", "n", "t", "e", "r", "n", "a", "l", "_", "d", "e", "p", "o", "s", "i", "t">>)
           [] t.v = "Withdraw" -> Some(<<"w", "i", "t", "h", "d", "r", "a", "w">>)
           [] t.v = "InternalWithdraw" -> Some(<<"i", "n", "t", "e", "r", "n", "a", "l", "_", "w", "i", "t", "h", "d", "r", "a", "w">>)

IsTransfersListing(c) == calls[c].op \in {"get_deposits", "get_withdrawls"}

\* C7: the path of get_deposits and get_withdrawls is "/transfers/" followed by
\* the present parameters in the order type, profile_id, before/after, limit,
\* the first after a '?', each later one after a '&'; '?' occurs at most once;
\* with no parameter present the path is "/transfers/".
C7_QueryAppendProtocol ==
    \A c \in Calls :
        IsTransfersListing(c) =>
            LET a == calls[c].args
                inc == Included(TypeText(a[1]), a[2], a[3], a[4])
            IN  /\ calls[c].path
                     = IF inc = <<>> THEN <<"/", "t", "r", "a", "n", "s", "f", "e", "r", "s", "/">>
                       ELSE <<"/", "t", "r", "a", "n", "s", "f", "e", "r", "s", "/", "?">> \o JoinWith(inc, <<"&">>)
                /\ CountChar(calls[c].path, "?") = (IF inc = <<>> THEN 0 ELSE 1)
                /\ CountChar(calls[c].path, "&") = (IF inc = <<>> THEN 0 ELSE Len(inc) - 1)

\* get_withdrawls was called without a type and with the three other parameters
C7_Witness ==
    \E c \in Calls :
        /\ calls[c].op = "get_withdrawls"
        /\ calls[c].args = <<None, Some(<<"p", "1">>), Some("After"), Some(7)>>
        /\ calls[c].path = <<"/", "t", "r", "a", "n", "s", "f", "e", "r", "s", "/", "?", "p", "r", "o", "f", "i", "l", "e", "_", "i", "d", "=", "p", "1", "&", "a", "f", "t", "e", "r", "&", "l", "i", "m", "i", "t", "=", "7">>

\* C8: the limit in the query string of get_deposits and get_withdrawls is
\* min(n, 100) for the requested n; a limit above 100 with type Deposit and
\* profile_id "p1" gives "/transfers/?type=deposit&profile_id=p1&limit=100".
C8_LimitClamped ==
    \A c \in Calls :
        (IsTransfersListing(c) /\ calls[c].args[4].some) =>
            LET n == calls[c].args[4].v
                a == calls[c].args
            IN  /\ \/ EndsWith(calls[c].path, <<"?", "l", "i", "m", "i", "t", "=">> \o ToDecimal(Min(n, 100)))
                   \/ EndsWith(calls[c].path, <<"&", "l", "i", "m", "i", "t", "=">> \o ToDecimal(Min(n, 100)))
                /\ (/\ calls[c].op = "get_deposits" /\ n > 100
                    /\ a[1] = Some("Deposit") /\ a[2] = Some(<<"p", "1">>) /\ a[3] = None)
                   => calls[c].path = <<"/", "t", "r", "a", "n", "s", "f", "e", "r", "s", "/", "?", "t", "y", "p", "e", "=", "d", "e", "p", "o", "s", "i", "t", "&", "p", "r", "o", "f", "i", "l", "e", "_", "i", "d", "=", "p", "1", "&", "l", "i", "m", "i", "t", "=", "1", "0", "0">>

\* get_deposits was called with the largest limit a u8 holds
C8_Witness ==
    \E c \in Calls :
        /\ calls[c].op = "get_deposits"
        /\ calls[c].args = <<Some("Deposit"), Some(<<"p", "1">>), None, Some(U8Max)>>
        /\ calls[c].path = <<"/", "t", "r", "a", "n", "s", "f", "e", "r", "s", "/", "?", "t", "y", "p", "e", "=", "d", "e", "p", "o", "s", "i", "t", "&", "p", "r", "o", "f", "i", "l", "e", "_", "i", "d", "=", "p", "1", "&", "l", "i", "m", "i", "t", "=", "1", "0", "0">>

BadCredentials ==
    \/ secret = InvalidSecret
    \/ \E i \in 1..Len(key) : key[i] = "\n"
    \/ \E i \in 1..Len(passphrase) : passphrase[i] = "\n"

\* C10: with a secret that is not base64, or a key or passphrase that is no
\* header value, a call gets no further than access_headers, where it aborts:
\* it sends no request, builds no headers and returns nothing to its caller.
C10_BadCredentialsAbort ==
    BadCredentials =>
        \A c \in Calls :
            /\ calls[c].pc \in {"idle", "timestamp", "sign", "insert", "panicked"}
            /\ secret = InvalidSecret => calls[c].pc # "insert"
            /\ wire[c] = <<>>
            /\ calls[c].headers = None
            /\ calls[c].signature.some => secret # InvalidSecret
            /\ calls[c].result = None /\ calls[c].ret = None

\* a call aborted on a key that is no header value, with a valid secret
C10_Witness ==
    \E c \in Calls :
        /\ calls[c].pc = "panicked"
        /\ calls[c].signature.some
        /\ secret = ValidSecret
        /\ key = <<"k", "\n">>

----------------------------------------------------------------------------
(* C11: one request per call, and every sent request is answered *)

\* the call has returned an error to its caller
ReturnedError(c) ==
    calls[c].pc = "done" /\ calls[c].ret.some /\ ~calls[c].ret.v.ok

\* C11: a call of get, post, post_and_deserialize or delete puts at most one
\* request on the wire; once it has returned (a value, or the error of a
\* transport failure, a non-2xx status or a decode failure) it sends nothing
\* more and its return stays what it is; and from some point on every call
\* that has sent its request has returned a value or an error.
C11_OneRequestThenReturn ==
    /\ [](\A c \in Calls :
            /\ Len(wire[c]) <= 1
            /\ calls[c].pc \in {"await", "done"} <=> Len(wire[c]) = 1
            /\ calls[c].pc = "done" => calls[c].ret.some)
    /\ [][\A c \in Calls :
            calls[c].pc = "done" => wire'[c] = wire[c] /\ calls'[c] = calls[c]]_vars
    /\ <>[](\A c \in Calls :
            Len(wire[c]) = 1 => calls[c].pc = "done" /\ calls[c].ret.some)

\* a call that got a non-2xx status returned the error with one request sent
C11_Witness ==
    \E c \in Calls :
        /\ ReturnedError(c)
        /\ calls[c].response.some
        /\ ~is_success(calls[c].response.v.status)
        /\ Len(wire[c]) = 1

----------------------------------------------------------------------------
(* C12: concurrent calls on one client do not mix *)

\* what the call was asked to sign and send, as opposed to another call's
SameRequestInputs(c, d) ==
    /\ calls[c].path = calls[d].path
    /\ calls[c].body = calls[d].body
    /\ calls[c].meathod = calls[d].meathod
    /\ calls[c].timestamp = calls[d].timestamp

\* C12: whatever the interleaving of the calls on one client, no step changes
\* the secret, the key, the passphrase or the base URL; a call's timestamp is
\* the clock as it stood when that call read it; and every request on the
\* wire carries the timestamp of the call that sent it and the signature of
\* that call's own path, body, method and timestamp, so it is never signed
\* with, and never carries, what belongs to a call with other inputs.
C12_CallsIsolated ==
    /\ [][/\ secret' = secret /\ key' = key
          /\ passphrase' = passphrase /\ url' = url
          /\ \A c \in Calls :
                calls'[c].timestamp # calls[c].timestamp
                    => calls'[c].timestamp = Some(ToDecimal(clock))]_vars
    /\ [](\A c \in Calls : \A i \in 1..Len(wire[c]) :
            LET req == wire[c][i]
                call == calls[c]
                own == sign_message(secret, call.path, call.body,
                                    call.timestamp.v, call.meathod)
            IN  /\ req.url = url \o call.path
                /\ req.meathod = call.meathod
                /\ req.headers["cb-access-timestamp"] = call.timestamp.v
                /\ req.headers["cb-access-sign"] = own.sig
                /\ SignedText(req.headers["cb-access-sign"])
                     = Prehash(call.path, call.body, call.timestamp.v, call.meathod)
                /\ call.body.some => req.body = call.body
                /\ \A d \in Calls \ {c} :
                      calls[d].signature.some /\ ~SameRequestInputs(c, d)
                          => req.headers["cb-access-sign"] # calls[d].signature.v)

\* two calls of different operations in flight at once, the later-started one
\* already sent, their timestamps taken at different clock readings
C12_Witness ==
    \E c \in Calls : \E d \in Calls \ {c} :
        /\ calls[c].pc = "await" /\ Len(wire[c]) = 1
        /\ calls[d].pc = "await" /\ Len(wire[d]) = 1
        /\ calls[c].op # calls[d].op
        /\ calls[c].timestamp # calls[d].timestamp

----------------------------------------------------------------------------
(* C13: sign_message is a function of its inputs *)

----------------------------------------------------------------------------
(* C14: what is signed is what is sent *)

\* the HTTP verb the generic operation builds its request with
VerbOf(fn) ==
    CASE fn = "get" -> <<"G", "E", "T">>
      [] fn = "delete" -> <<"D", "E", "L", "E", "T", "E">>
      [] fn \in {"post", "post_and_deserialize"} -> <<"P", "O", "S", "T">>

\* C14: in every request sent by get, post or delete, the method folded into
\* the signed prehash is the verb of the request ("GET", "POST", "DELETE"),
\* and the path folded into it is exactly what follows the base URL in the
\* request URL, query string included; get and delete sign without a body and
\* send none, and so does post when it is given no body.
C14_SignedVerbAndPathAreSent ==
    \A c \in Calls : \A i \in 1..Len(wire[c]) :
        LET req == wire[c][i]
            call == calls[c]
            passed == call.signed.v
        IN  /\ req.meathod = VerbOf(call.fn)
            /\ passed.meathod = req.meathod
            /\ req.url = url \o passed.url
            /\ call.fn \in {"get", "delete"} => passed.body = None /\ req.body = None
            /\ call.fn \in {"post", "post_and_deserialize"} /\ call.payload = None
                  => passed.body = None /\ req.body = None
            /\ passed.body = None
                  => SignedText(req.headers["cb-access-sign"])
                        = Concat(<<req.headers["cb-access-timestamp"], req.meathod, passed.url>>)
            /\ passed.body.some
                  => SignedText(req.headers["cb-access-sign"])
                        = Concat(<<req.headers["cb-access-timestamp"], req.meathod,
                                   passed.url, passed.body.v>>)

\* a GET with a query string in its path has been sent
C14_Witness ==
    \E c \in Calls :
        /\ calls[c].fn = "get"
        /\ Len(wire[c]) = 1
        /\ wire[c][1].meathod = <<"G", "E", "T">>
        /\ \E i \in 1..Len(calls[c].path) : calls[c].path[i] = "?"
        /\ wire[c][1].body = None

----------------------------------------------------------------------------
(* C15: both withdrawals post to /withdrawals/coinbase-account *)

\* the text signed for a POST of the body to the coinbase-account path
WithdrawalPrehash(req) ==
    Concat(<<req.headers["cb-access-timestamp"], <<"P", "O", "S", "T">>,
             <<"/", "w", "i", "t", "h", "d", "r", "a", "w", "a", "l", "s", "/", "c", "o", "i", "n", "b", "a", "s", "e", "-", "a", "c", "c", "o", "u", "n", "t">>, req.body.v>>)

\* C15: every request of withdraw_to_crypto_address is a POST to the base URL
\* followed by "/withdrawals/coinbase-account", the path withdraw_to_coinbase
\* posts to, and is signed for that path; set against a request of
\* withdraw_to_coinbase on the same client it has the same verb, the same URL
\* and the same headers but for the timestamp and the signature, and another
\* body, which is all the two signed texts differ in past the timestamp.
C15_CryptoWithdrawalUsesCoinbasePath ==
    \A c \in Calls : \A i \in 1..Len(wire[c]) :
        calls[c].op = "withdraw_to_crypto_address" =>
            LET req == wire[c][i]
            IN  /\ req.meathod = <<"P", "O", "S", "T">>
                /\ req.url = url \o <<"/", "w", "i", "t", "h", "d", "r", "a", "w", "a", "l", "s", "/", "c", "o", "i", "n", "b", "a", "s", "e", "-", "a", "c", "c", "o", "u", "n", "t">>
                /\ req.body.some
                /\ SignedText(req.headers["cb-access-sign"]) = WithdrawalPrehash(req)
                /\ \A d \in Calls : \A j \in 1..Len(wire[d]) :
                      calls[d].op = "withdraw_to_coinbase" =>
                          LET other == wire[d][j]
                          IN  /\ other.meathod = req.meathod
                              /\ other.url = req.url
                              /\ DOMAIN other.headers = DOMAIN req.headers
                              /\ \A h \in DOMAIN req.headers \ {"cb-access-sign", "cb-access-timestamp"} :
                                    other.headers[h] = req.headers[h]
                              /\ other.body.some /\ other.body # req.body
                              /\ SignedText(other.headers["cb-access-sign"])
                                    = WithdrawalPrehash(other)

\* a withdrawal to a crypto address and one to a coinbase account have both
\* been sent, with the same timestamp
C15_Witness ==
    \E c \in Calls : \E d \in Calls \ {c} :
        /\ calls[c].op = "withdraw_to_crypto_address" /\ Len(wire[c]) = 1
        /\ calls[d].op = "withdraw_to_coinbase" /\ Len(wire[d]) = 1
        /\ wire[c][1].headers["cb-access-timestamp"] = wire[d][1].headers["cb-access-timestamp"]
        /\ wire[c][1].url = wire[d][1].url

====
